---------------------------- MODULE Spec2Model ----------------------------
(***************************************************************************)
(* Model of agent/config_endpoint.go: the HTTP handlers Config (GET and    *)
(* DELETE on /v1/config/...) and ConfigApply, the decoding of a request    *)
(* body into a typed config entry, and the backend calls (s.agent.RPC)     *)
(* the handlers issue.                                                     *)
(*                                                                         *)
(* Strings that the code takes apart (URL paths, kinds, names) are         *)
(* sequences of one-character strings.  Messages that the code only builds *)
(* are sequences of pieces, so that fmt.Sprintf is concatenation.          *)
(***************************************************************************)
EXTENDS Integers, Sequences, FiniteSets, TLC

(***************************************************************************)
(* Bounds of the model.                                                    *)
(***************************************************************************)
\* longest path suffix after "/v1/config/"
MaxLen == 3
\* number of requests the server handles at the same time
NumReqs == 2

Reqs == 1 .. NumReqs

\* characters of a path suffix
Alphabet == {"a", "/"}

ConfigPrefix == <<"/", "v", "1", "/", "c", "o", "n", "f", "i", "g", "/">>

Suffixes == UNION {[1 .. n -> Alphabet] : n \in 0 .. MaxLen}

\* datacenter and token a request carries
Scopes == {[dc |-> "dc1", token |-> "t1"], [dc |-> "dc2", token |-> "t2"]}

\* kinds the registry knows, and the strings a body may carry as a value
RegisteredKinds == {<<"a">>}
Strings == {<<"a">>, <<"a", "a">>}

\* what the backend may answer
BackendErrors == {"rpc error: ACL not found", "rpc error: No cluster leader"}
BackendReplies == {"entries0", "entries1"}

(***************************************************************************)
(* Values: errors, results, response writer.                               *)
(***************************************************************************)
NoError == [type |-> "nil", msg |-> <<>>, allow |-> <<>>]

Errorf(pieces) == [type |-> "error", msg |-> pieces, allow |-> <<>>]

BadRequestError(reason) == [type |-> "BadRequestError", msg |-> reason, allow |-> <<>>]

MethodNotAllowedError(method, allow) ==
    [type |-> "MethodNotAllowedError", msg |-> <<method>>, allow |-> allow]

NilResult == [type |-> "nil", val |-> ""]
IndexedConfigEntries(rep) == [type |-> "IndexedConfigEntries", val |-> rep]
EmptyStruct == [type |-> "struct{}", val |-> ""]

\* a response writer nothing was written to
NoResp == [code |-> 0, body |-> <<>>]
StatusBadRequest == 400

NoReturn == [result |-> NilResult, err |-> NoError]

NilEntry == [isNil |-> TRUE, Kind |-> <<>>, Name |-> <<>>]

ConfigEntryUpsert == "upsert"
ConfigEntryDelete == "delete"

(***************************************************************************)
(* strings.TrimPrefix and strings.SplitN (with a one-character separator). *)
(***************************************************************************)
HasPrefix(s, prefix) ==
    /\ Len(s) >= Len(prefix)
    /\ SubSeq(s, 1, Len(prefix)) = prefix

TrimPrefix(s, prefix) ==
    IF HasPrefix(s, prefix) THEN SubSeq(s, Len(prefix) + 1, Len(s)) ELSE s

\* position of the first sep in s, 0 if there is none
Index(s, sep) ==
    IF \E i \in 1 .. Len(s) : s[i] = sep
    THEN CHOOSE i \in 1 .. Len(s) : s[i] = sep /\ \A j \in 1 .. (i - 1) : s[j] # sep
    ELSE 0

RECURSIVE SplitN_all(_, _, _)
\* SplitN that forgets the limit n and splits at every separator
SplitN_all(s, sep, n) ==
    IF Index(s, sep) = 0 THEN <<s>>
    ELSE <<SubSeq(s, 1, Index(s, sep) - 1)>>
             \o SplitN_all(SubSeq(s, Index(s, sep) + 1, Len(s)), sep, n)

RECURSIVE SplitN(_, _, _)
SplitN(s, sep, n) ==
    IF n = 0 THEN <<>>
    ELSE IF n = 1 \/ Index(s, sep) = 0 THEN <<s>>
    ELSE <<SubSeq(s, 1, Index(s, sep) - 1)>>
             \o SplitN(SubSeq(s, Index(s, sep) + 1, Len(s)), sep, n - 1)

(***************************************************************************)
(* Requests.  A request body is either not decodable as a JSON object or a *)
(* raw mapping from keys to values; a value is a string or a number.       *)
(***************************************************************************)
Keys == {"Kind", "kind", "Name"}

StringValue(s) == [type |-> "string", str |-> s]
NumberValue == [type |-> "float64", str |-> <<>>]
Values == {StringValue(s) : s \in Strings} \cup {NumberValue}

Raws == UNION {[D -> Values] : D \in SUBSET Keys}

NoBody == [decodable |-> FALSE, raw |-> <<>>]
Bodies == {NoBody} \cup {[decodable |-> TRUE, raw |-> raw] : raw \in Raws}

ConfigRequests ==
    {[handler |-> "Config", Method |-> m, Path |-> ConfigPrefix \o suf,
      dc |-> sc.dc, token |-> sc.token, badQuery |-> bq, Body |-> NoBody] :
        m \in {"GET"}, suf \in Suffixes, sc \in Scopes, bq \in BOOLEAN}
    \cup
    {[handler |-> "Config", Method |-> m, Path |-> ConfigPrefix \o suf,
      dc |-> sc.dc, token |-> sc.token, badQuery |-> bq, Body |-> NoBody] :
        m \in {"DELETE", "PUT", "POST"}, suf \in Suffixes, sc \in Scopes, bq \in {FALSE}}

ApplyRequests ==
    {[handler |-> "ConfigApply", Method |-> "PUT", Path |-> SubSeq(ConfigPrefix, 1, 10),
      dc |-> sc.dc, token |-> sc.token, badQuery |-> FALSE, Body |-> b] :
        sc \in Scopes, b \in Bodies}

Requests == ConfigRequests \cup ApplyRequests

NoRequest == [handler |-> "", Method |-> "", Path |-> <<>>,
              dc |-> "", token |-> "", badQuery |-> FALSE, Body |-> NoBody]

(***************************************************************************)
(* Collaborators defined outside config_endpoint.go.                       *)
(***************************************************************************)
\* s.parseDC / s.parseToken: the datacenter and the token of the request
parseDC(rq) == rq.dc
parseToken(rq) == rq.token

\* s.parse: fills the datacenter and the query options; done (with the
\* response already written) when the query options are unusable
parse(rq) ==
    [done |-> rq.badQuery,
     Datacenter |-> parseDC(rq),
     QueryOptions |-> [Token |-> parseToken(rq)],
     resp |-> IF rq.badQuery
              THEN [code |-> StatusBadRequest, body |-> <<"invalid query options">>]
              ELSE NoResp]

\* structs.MakeConfigEntry: a fresh entry of a registered kind
MakeConfigEntry(kind, name) ==
    IF kind \in RegisteredKinds
    THEN [entry |-> [isNil |-> FALSE, Kind |-> kind, Name |-> name], err |-> NoError]
    ELSE [entry |-> NilEntry, err |-> Errorf(<<"invalid config entry kind: ">> \o kind)]

\* decodeBody(req, &raw, nil): the body as a raw mapping
decodeBody(rq) ==
    IF rq.Body.decodable
    THEN [raw |-> rq.Body.raw, err |-> NoError]
    ELSE [raw |-> <<>>, err |-> Errorf(<<"body is not a JSON object">>)]

(***************************************************************************)
(* decodeConfigEntry.                                                      *)
(***************************************************************************)
MissingKindError == Errorf(<<"Payload does not contain a kind/Kind key at the top level">>)
InvalidKindTypeError == Errorf(<<"Kind value in payload is not a string">>)
DecodeMismatchError == Errorf(<<"expected type 'string', got unconvertible type 'float64'">>)

\* the key mapstructure reads field `fieldName` from: the exact name first,
\* then a key equal to it up to case; "" when there is none
FieldKey(raw, fieldName) ==
    IF fieldName \in DOMAIN raw THEN fieldName
    ELSE IF fieldName = "Kind" /\ "kind" \in DOMAIN raw THEN "kind"
    ELSE ""

\* decoder.Decode(raw) into the entry: every field with a key takes the
\* key's value, which has to be a string
mapstructureDecode(entry, raw) ==
    LET kk == FieldKey(raw, "Kind")
        nk == FieldKey(raw, "Name")
        kindOk == kk = "" \/ raw[kk].type = "string"
        nameOk == nk = "" \/ raw[nk].type = "string"
    IN  [entry |-> [isNil |-> FALSE,
                    Kind |-> IF kk # "" /\ kindOk THEN raw[kk].str ELSE entry.Kind,
                    Name |-> IF nk # "" /\ nameOk THEN raw[nk].str ELSE entry.Name],
         err |-> IF kindOk /\ nameOk THEN NoError ELSE DecodeMismatchError]

\* decodeConfigEntry reading "kind" before "Kind"
decodeConfigEntry_lowerFirst(raw) ==
    LET ok == "Kind" \in DOMAIN raw \/ "kind" \in DOMAIN raw
        kindVal == IF "kind" \in DOMAIN raw THEN raw["kind"] ELSE raw["Kind"]
    IN  IF ~ok THEN [entry |-> NilEntry, err |-> MissingKindError]
        ELSE IF kindVal.type = "string"
             THEN LET made == MakeConfigEntry(kindVal.str, <<>>)
                  IN  IF made.err # NoError
                      THEN [entry |-> NilEntry, err |-> made.err]
                      ELSE mapstructureDecode(made.entry, raw)
             ELSE [entry |-> NilEntry, err |-> InvalidKindTypeError]

decodeConfigEntry(raw) ==
    LET ok == "Kind" \in DOMAIN raw \/ "kind" \in DOMAIN raw
        kindVal == IF "Kind" \in DOMAIN raw THEN raw["Kind"] ELSE raw["kind"]
    IN  IF ~ok THEN [entry |-> NilEntry, err |-> MissingKindError]
        ELSE IF kindVal.type = "string"
             THEN LET made == MakeConfigEntry(kindVal.str, <<>>)
                  IN  IF made.err # NoError
                      THEN [entry |-> NilEntry, err |-> made.err]
                      ELSE mapstructureDecode(made.entry, raw)
             ELSE [entry |-> NilEntry, err |-> InvalidKindTypeError]

(***************************************************************************)
(* The handlers.  A handler runs up to its backend call (pc "rpc", the     *)
(* call in calls) or up to its return (pc "done"); the *Return operators   *)
(* are what it does with the backend's answer.                             *)
(***************************************************************************)
Call(verb, args) == [verb |-> verb, args |-> args]

Returned(result, err) ==
    [pc |-> "done", calls |-> <<>>, ret |-> [result |-> result, err |-> err], resp |-> NoResp]

\* resp.WriteHeader(code); fmt.Fprintf(resp, body); return nil, nil
Answered(code, body) ==
    [pc |-> "done", calls |-> <<>>, ret |-> NoReturn, resp |-> [code |-> code, body |-> body]]

Calling(verb, args) ==
    [pc |-> "rpc", calls |-> <<Call(verb, args)>>, ret |-> NoReturn, resp |-> NoResp]

ConfigEntryQuery(kind, name, p) ==
    [Kind |-> kind, Name |-> name, Datacenter |-> p.Datacenter, QueryOptions |-> p.QueryOptions]

configGet(rq) ==
    LET p == parse(rq)
        pathArgs == SplitN(TrimPrefix(rq.Path, ConfigPrefix), "/", 2)
    IN  IF p.done THEN [Returned(NilResult, NoError) EXCEPT !.resp = p.resp]
        ELSE CASE Len(pathArgs) = 2 ->
                    Calling("ConfigEntry.Get", ConfigEntryQuery(pathArgs[1], pathArgs[2], p))
               [] Len(pathArgs) = 1 ->
                    Calling("ConfigEntry.List", ConfigEntryQuery(pathArgs[1], <<>>, p))
               [] OTHER ->
                    Answered(StatusBadRequest,
                             <<"Must provide either a kind or both kind and name">>)

configGetReturn(out) ==
    IF out.err # NoError
    THEN [result |-> NilResult, err |-> out.err]
    ELSE [result |-> IndexedConfigEntries(out.reply), err |-> NoError]

\* the envelope of configDelete: var args structs.ConfigEntryRequest, then
\* Datacenter, Token and Entry are set; Op keeps its zero value
configDeleteArgs(rq, entry) ==
    [Op |-> "", Datacenter |-> parseDC(rq), Token |-> parseToken(rq), Entry |-> entry]

\* configDelete without the check of MakeConfigEntry's error
configDelete_noKindCheck(rq) ==
    LET pathArgs == SplitN(TrimPrefix(rq.Path, ConfigPrefix), "/", 2)
    IN  IF Len(pathArgs) # 2
        THEN Answered(StatusBadRequest, <<"Must provide both a kind and name to delete">>)
        ELSE Calling("ConfigEntry.Delete",
                     configDeleteArgs(rq, MakeConfigEntry(pathArgs[1], pathArgs[2]).entry))

configDelete(rq) ==
    LET pathArgs == SplitN(TrimPrefix(rq.Path, ConfigPrefix), "/", 2)
    IN  IF Len(pathArgs) # 2
        THEN Answered(StatusBadRequest, <<"Must provide both a kind and name to delete">>)
        ELSE LET made == MakeConfigEntry(pathArgs[1], pathArgs[2])
             IN  IF made.err # NoError
                 THEN Answered(StatusBadRequest, made.err.msg)
                 ELSE Calling("ConfigEntry.Delete", configDeleteArgs(rq, made.entry))

\* configDelete's return reporting a backend error as a bad request
configDeleteReturn_wrapped(out) ==
    IF out.err # NoError
    THEN [result |-> NilResult, err |-> BadRequestError(out.err.msg)]
    ELSE [result |-> EmptyStruct, err |-> NoError]

configDeleteReturn(out) ==
    IF out.err # NoError
    THEN [result |-> NilResult, err |-> out.err]
    ELSE [result |-> EmptyStruct, err |-> NoError]

\* Config without the DELETE case
Config_noDelete(rq) ==
    CASE rq.Method = "GET" -> configGet(rq)
      [] OTHER -> Returned(NilResult, MethodNotAllowedError(rq.Method, <<"GET", "DELETE">>))

Config(rq) ==
    CASE rq.Method = "GET" -> configGet(rq)
      [] rq.Method = "DELETE" -> configDelete(rq)
      [] OTHER -> Returned(NilResult, MethodNotAllowedError(rq.Method, <<"GET", "DELETE">>))

\* the envelope of ConfigApply with Op left unset
ConfigApplyArgs_noOp(rq, entry) ==
    [Op |-> "", Datacenter |-> parseDC(rq), Token |-> parseToken(rq), Entry |-> entry]

\* the envelope of ConfigApply
ConfigApplyArgs(rq, entry) ==
    [Op |-> ConfigEntryUpsert, Datacenter |-> parseDC(rq), Token |-> parseToken(rq),
     Entry |-> entry]

RequestDecodingFailed(err) == BadRequestError(<<"Request decoding failed: ">> \o err.msg)

\* ConfigApply sending whatever decodeConfigEntry returned
ConfigApply_sendAnyway(rq) ==
    LET body == decodeBody(rq)
    IN  IF body.err # NoError
        THEN Returned(NilResult, RequestDecodingFailed(body.err))
        ELSE Calling("ConfigEntry.Apply",
                     ConfigApplyArgs(rq, decodeConfigEntry(body.raw).entry))

ConfigApply(rq) ==
    LET body == decodeBody(rq)
    IN  IF body.err # NoError
        THEN Returned(NilResult, RequestDecodingFailed(body.err))
        ELSE LET dec == decodeConfigEntry(body.raw)
             IN  IF dec.err = NoError
                 THEN Calling("ConfigEntry.Apply", ConfigApplyArgs(rq, dec.entry))
                 ELSE Returned(NilResult, RequestDecodingFailed(dec.err))

ConfigApplyReturn(out) == [result |-> NilResult, err |-> out.err]

(***************************************************************************)
(* The server: NumReqs invocations of the handlers, each with its own      *)
(* request, calls, backend answer, return value and response writer.       *)
(***************************************************************************)
VARIABLES req, pc, calls, rpcResult, ret, resp

vars == <<req, pc, calls, rpcResult, ret, resp>>

NoOutcome == [reply |-> "", err |-> NoError]

\* what the backend may answer to a call
Outcomes(verb) ==
    {[reply |-> "", err |-> Errorf(<<e>>)] : e \in BackendErrors}
    \cup
    {[reply |-> rep, err |-> NoError] :
        rep \in IF verb \in {"ConfigEntry.Get", "ConfigEntry.List"}
                THEN BackendReplies ELSE {""}}

Init ==
    /\ req = [r \in Reqs |-> NoRequest]
    /\ pc = [r \in Reqs |-> "idle"]
    /\ calls = [r \in Reqs |-> <<>>]
    /\ rpcResult = [r \in Reqs |-> NoOutcome]
    /\ ret = [r \in Reqs |-> NoReturn]
    /\ resp = [r \in Reqs |-> NoResp]

\* invocation r runs handler outcome h on request rq
Begin(r, rq, h) ==
    /\ pc[r] = "idle"
    /\ req' = [req EXCEPT ![r] = rq]
    /\ pc' = [pc EXCEPT ![r] = h.pc]
    /\ calls' = [calls EXCEPT ![r] = h.calls]
    /\ ret' = [ret EXCEPT ![r] = h.ret]
    /\ resp' = [resp EXCEPT ![r] = h.resp]
    /\ UNCHANGED rpcResult

HandleConfig(r, rq) ==
    /\ rq.handler = "Config"
    /\ Begin(r, rq, Config(rq))

\* ConfigApply with an envelope shared by the invocations: the call carries
\* the datacenter and token of another request that is in flight
HandleConfigApply_sharedArgs(r, rq) ==
    /\ rq.handler = "ConfigApply"
    /\ LET h == ConfigApply(rq)
           others == {o \in Reqs \ {r} : pc[o] = "rpc"}
           o == CHOOSE x \in others : TRUE
       IN  IF h.calls = <<>> \/ others = {}
           THEN Begin(r, rq, h)
           ELSE Begin(r, rq,
                      [h EXCEPT !.calls[1].args.Datacenter = req[o].dc,
                                !.calls[1].args.Token = req[o].token])

HandleConfigApply(r, rq) ==
    /\ rq.handler = "ConfigApply"
    /\ Begin(r, rq, ConfigApply(rq))

\* s.agent.RPC returns out to invocation r, and the handler returns
RPCReturn(r, out) ==
    /\ pc[r] = "rpc"
    /\ out \in Outcomes(calls[r][1].verb)
    /\ rpcResult' = [rpcResult EXCEPT ![r] = out]
    /\ ret' = [ret EXCEPT ![r] =
                  CASE calls[r][1].verb \in {"ConfigEntry.Get", "ConfigEntry.List"} ->
                         configGetReturn(out)
                    [] calls[r][1].verb = "ConfigEntry.Delete" -> configDeleteReturn(out)
                    [] OTHER -> ConfigApplyReturn(out)]
    /\ pc' = [pc EXCEPT ![r] = "done"]
    /\ UNCHANGED <<req, calls, resp>>

\* the response is sent and the invocation with all it held is gone
Finish(r) ==
    /\ pc[r] = "done"
    /\ req' = [req EXCEPT ![r] = NoRequest]
    /\ pc' = [pc EXCEPT ![r] = "idle"]
    /\ calls' = [calls EXCEPT ![r] = <<>>]
    /\ rpcResult' = [rpcResult EXCEPT ![r] = NoOutcome]
    /\ ret' = [ret EXCEPT ![r] = NoReturn]
    /\ resp' = [resp EXCEPT ![r] = NoResp]

AllOutcomes == UNION {Outcomes(v) : v \in {"ConfigEntry.Get", "ConfigEntry.Delete"}}

\* one request at a time, any request
Quiet == \A r \in Reqs : pc[r] = "idle"

Next ==
    \/ \E r \in Reqs, rq \in Requests : Quiet /\ HandleConfig(r, rq)
    \/ \E r \in Reqs, rq \in Requests : Quiet /\ HandleConfigApply(r, rq)
    \/ \E r \in Reqs, out \in AllOutcomes : RPCReturn(r, out)
    \/ \E r \in Reqs : Finish(r)

Spec == Init /\ [][Next]_vars

\* the requests of the concurrent runs: one of each shape, in each scope
ConcSuffixes == {<<"a">>, <<"a", "/", "a">>, <<"/", "a">>}
ConcRaws == {r \in Raws : DOMAIN r = {"Kind", "Name"} /\ r["Name"] = StringValue(<<"a">>)
                          /\ r["Kind"] \in {StringValue(<<"a">>), NumberValue}}

ConcRequests ==
    {rq \in ConfigRequests :
        /\ TrimPrefix(rq.Path, ConfigPrefix) \in ConcSuffixes
        /\ rq.Method \in {"GET", "DELETE", "PUT"}
        /\ rq.Method = "PUT" => TrimPrefix(rq.Path, ConfigPrefix) = <<"a">>
        /\ rq.Method = "GET" => TrimPrefix(rq.Path, ConfigPrefix) # <<"/", "a">>}
    \cup
    {rq \in ApplyRequests : rq.Body = NoBody \/ rq.Body.raw \in ConcRaws}

\* requests handled concurrently
NextConc ==
    \/ \E r \in Reqs, rq \in ConcRequests : HandleConfig(r, rq)
    \/ \E r \in Reqs, rq \in ConcRequests : HandleConfigApply(r, rq)
    \/ \E r \in Reqs, out \in AllOutcomes : RPCReturn(r, out)
    \/ \E r \in Reqs : Finish(r)

SpecConc == Init /\ [][NextConc]_vars

(***************************************************************************)
(* Vocabulary of the properties, stated on requests and not through the    *)
(* handlers' own operators.                                                *)
(***************************************************************************)
Started(r) == pc[r] # "idle"

Suffix(rq) == SubSeq(rq.Path, Len(ConfigPrefix) + 1, Len(rq.Path))

HasSlash(s) == \E i \in 1 .. Len(s) : s[i] = "/"

\* kind is the text before the first "/" of s and name the text after it
SplitsInto(s, kind, name) ==
    /\ ~HasSlash(kind)
    /\ s = kind \o <<"/">> \o name

KindOf(s) == CHOOSE kind \in Suffixes : \E name \in Suffixes : SplitsInto(s, kind, name)
NameOf(s) == CHOOSE name \in Suffixes : \E kind \in Suffixes : SplitsInto(s, kind, name)

IsGet(r) == Started(r) /\ req[r].handler = "Config" /\ req[r].Method = "GET"
IsDelete(r) == Started(r) /\ req[r].handler = "Config" /\ req[r].Method = "DELETE"
IsApply(r) == Started(r) /\ req[r].handler = "ConfigApply"

Entry(kind, name) == [isNil |-> FALSE, Kind |-> kind, Name |-> name]

\* the discriminator of a raw mapping that has one
Discriminator(raw) == IF "Kind" \in DOMAIN raw THEN raw["Kind"] ELSE raw["kind"]
HasDiscriminator(raw) == "Kind" \in DOMAIN raw \/ "kind" \in DOMAIN raw

\* the body decodes completely into a typed entry
Decodes(body) ==
    /\ body.decodable
    /\ HasDiscriminator(body.raw)
    /\ Discriminator(body.raw).type = "string"
    /\ Discriminator(body.raw).str \in RegisteredKinds
    /\ "Name" \in DOMAIN body.raw => body.raw["Name"].type = "string"

DecodedEntry(body) ==
    Entry(Discriminator(body.raw).str,
          IF "Name" \in DOMAIN body.raw THEN body.raw["Name"].str ELSE <<>>)

\* the response is a 400
BadRequest(r) == pc[r] = "done" /\ resp[r].code = StatusBadRequest /\ ret[r] = NoReturn

(***************************************************************************)
(* C1                                                                      *)
(***************************************************************************)
GetRoutesBySlash(r) ==
    LET suf == Suffix(req[r])
    IN  /\ Len(calls[r]) = 1
        /\ calls[r][1].args.Datacenter = req[r].dc
        /\ ~HasSlash(suf) =>
              /\ calls[r][1].verb = "ConfigEntry.List"
              /\ calls[r][1].args.Kind = suf
        /\ HasSlash(suf) =>
              /\ calls[r][1].verb = "ConfigEntry.Get"
              /\ SplitsInto(suf, calls[r][1].args.Kind, calls[r][1].args.Name)
        /\ (pc[r] = "done" /\ rpcResult[r].err = NoError) =>
              ret[r] = [result |-> IndexedConfigEntries(rpcResult[r].reply), err |-> NoError]

\* C1 as stated: every GET with a non-empty path suffix issues exactly one
\* backend call, ConfigEntry.List with Kind the whole suffix when the suffix
\* has no "/", ConfigEntry.Get with Kind the text before the first "/" and
\* Name the text after it otherwise, and on backend success returns the
\* backend's indexed reply.
C1_EveryGetCalls ==
    \A r \in Reqs : (IsGet(r) /\ Suffix(req[r]) # <<>>) => GetRoutesBySlash(r)

\* C1, amended: every GET with a non-empty path suffix whose query options
\* s.parse accepts issues exactly one backend call, List or Get by the "/"
\* as above, and on backend success returns the backend's indexed reply; a
\* GET whose query options s.parse rejects issues no backend call.
C1_ParsedGetCalls ==
    \A r \in Reqs :
        /\ (IsGet(r) /\ Suffix(req[r]) # <<>> /\ ~req[r].badQuery) => GetRoutesBySlash(r)
        /\ (IsGet(r) /\ req[r].badQuery) => calls[r] = <<>>

C1_Witness ==
    \E r \in Reqs :
        /\ IsGet(r) /\ pc[r] = "done"
        /\ Suffix(req[r]) = <<"a", "/", "/">>
        /\ calls[r] # <<>> /\ calls[r][1].args.Name = <<"/">>
        /\ ret[r].result.type = "IndexedConfigEntries"

(***************************************************************************)
(* C2                                                                      *)
(***************************************************************************)
\* C2: a GET whose path suffix is empty is answered with a 400 and issues
\* no backend call.
C2_EmptyGetRejected ==
    \A r \in Reqs :
        (IsGet(r) /\ Suffix(req[r]) = <<>>) => (calls[r] = <<>> /\ BadRequest(r))

(***************************************************************************)
(* C3                                                                      *)
(***************************************************************************)
\* C3: a DELETE whose suffix has no "/" is answered 400 "Must provide both a
\* kind and name to delete" without a backend call; one whose suffix is
\* kind/name with a registered kind issues exactly one ConfigEntry.Delete
\* whose envelope holds the entry of that kind and name; one with an
\* unregistered kind is answered 400 without a backend call.
C3_Delete ==
    \A r \in Reqs : IsDelete(r) =>
        LET suf == Suffix(req[r])
        IN  /\ ~HasSlash(suf) =>
                  /\ calls[r] = <<>>
                  /\ BadRequest(r)
                  /\ resp[r].body = <<"Must provide both a kind and name to delete">>
            /\ (HasSlash(suf) /\ KindOf(suf) \in RegisteredKinds) =>
                  /\ Len(calls[r]) = 1
                  /\ calls[r][1].verb = "ConfigEntry.Delete"
                  /\ calls[r][1].args.Entry = Entry(KindOf(suf), NameOf(suf))
            /\ (HasSlash(suf) /\ KindOf(suf) \notin RegisteredKinds) =>
                  /\ calls[r] = <<>>
                  /\ BadRequest(r)

C3_Witness ==
    \E r \in Reqs :
        /\ IsDelete(r) /\ pc[r] = "rpc"
        /\ Suffix(req[r]) = <<"a", "/", "a">>
        /\ calls[r][1].args.Entry = Entry(<<"a">>, <<"a">>)

(***************************************************************************)
(* C4                                                                      *)
(***************************************************************************)
\* C4: Config hands a GET to configGet and a DELETE to configDelete (the
\* calls issued and the response written are theirs); any other method
\* returns MethodNotAllowedError listing exactly GET and DELETE, with no
\* response written from the path and no backend call.
C4_Dispatch ==
    \A r \in Reqs : (Started(r) /\ req[r].handler = "Config") =>
        /\ req[r].Method = "GET" =>
              /\ calls[r] = configGet(req[r]).calls
              /\ resp[r] = configGet(req[r]).resp
              /\ ret[r].err.type # "MethodNotAllowedError"
        /\ req[r].Method = "DELETE" =>
              /\ calls[r] = configDelete(req[r]).calls
              /\ resp[r] = configDelete(req[r]).resp
              /\ ret[r].err.type # "MethodNotAllowedError"
        /\ req[r].Method \notin {"GET", "DELETE"} =>
              /\ pc[r] = "done"
              /\ ret[r].result = NilResult
              /\ ret[r].err.type = "MethodNotAllowedError"
              /\ ret[r].err.msg = <<req[r].Method>>
              /\ ret[r].err.allow = <<"GET", "DELETE">>
              /\ resp[r] = NoResp
              /\ calls[r] = <<>>

C4_Witness ==
    \E r \in Reqs :
        /\ Started(r) /\ req[r].handler = "Config" /\ req[r].Method = "PUT"
        /\ Suffix(req[r]) = <<"a", "/", "a">>
        /\ ret[r].err.allow = <<"GET", "DELETE">>

(***************************************************************************)
(* C5                                                                      *)
(***************************************************************************)
\* C5: ConfigApply issues a backend call exactly when the body decodes
\* completely into a typed entry; then it is one ConfigEntry.Apply whose
\* envelope carries the decoded entry and Op = upsert; otherwise it returns
\* a BadRequestError "Request decoding failed: ..." and sends nothing.
C5_NoPartialApply ==
    \A r \in Reqs : IsApply(r) =>
        /\ Len(calls[r]) <= 1
        /\ Len(calls[r]) = 1 <=> Decodes(req[r].Body)
        /\ Decodes(req[r].Body) =>
              /\ calls[r][1].verb = "ConfigEntry.Apply"
              /\ calls[r][1].args.Entry = DecodedEntry(req[r].Body)
              /\ calls[r][1].args.Op = ConfigEntryUpsert
        /\ ~Decodes(req[r].Body) =>
              /\ pc[r] = "done"
              /\ ret[r].result = NilResult
              /\ ret[r].err.type = "BadRequestError"
              /\ ret[r].err.msg[1] = "Request decoding failed: "
              /\ Len(ret[r].err.msg) > 1

C5_Witness ==
    \E r \in Reqs :
        /\ IsApply(r) /\ pc[r] = "done"
        /\ req[r].Body.decodable
        /\ DOMAIN req[r].Body.raw = {"kind", "Name"}
        /\ req[r].Body.raw["kind"] = StringValue(<<"a">>)
        /\ req[r].Body.raw["Name"] = NumberValue
        /\ calls[r] = <<>>
        /\ ret[r].err.type = "BadRequestError"

(***************************************************************************)
(* C6                                                                      *)
(***************************************************************************)
\* the request is malformed: a GET with no segment, a DELETE without both
\* segments or of an unregistered kind, an apply whose body does not decode
Malformed(rq) ==
    \/ rq.handler = "Config" /\ rq.Method = "GET" /\ Suffix(rq) = <<>>
    \/ rq.handler = "Config" /\ rq.Method = "DELETE" /\ ~HasSlash(Suffix(rq))
    \/ rq.handler = "Config" /\ rq.Method = "DELETE" /\ HasSlash(Suffix(rq))
          /\ KindOf(Suffix(rq)) \notin RegisteredKinds
    \/ rq.handler = "ConfigApply" /\ ~Decodes(rq.Body)

\* C6: over any sequence of requests, no backend call is ever issued on
\* behalf of a malformed request.
C6_MalformedNeverReachBackend ==
    \A r \in Reqs : (Started(r) /\ Malformed(req[r])) => calls[r] = <<>>

(***************************************************************************)
(* C7                                                                      *)
(***************************************************************************)
\* C7: when the backend call of a Get, List, Delete or Apply returns error
\* e, the handler returns a nil result and exactly e, and no request ever
\* has more than one backend call.
C7_ErrorPassthrough ==
    \A r \in Reqs :
        /\ Len(calls[r]) <= 1
        /\ (pc[r] = "done" /\ calls[r] # <<>> /\ rpcResult[r].err # NoError) =>
              /\ ret[r] = [result |-> NilResult, err |-> rpcResult[r].err]
              /\ resp[r] = NoResp

C7_Witness ==
    \E r \in Reqs :
        /\ pc[r] = "done" /\ calls[r] # <<>>
        /\ calls[r][1].verb = "ConfigEntry.Delete"
        /\ rpcResult[r].err = Errorf(<<"rpc error: No cluster leader">>)
        /\ ret[r].err = rpcResult[r].err

(***************************************************************************)
(* C8                                                                      *)
(***************************************************************************)
UnknownKindError(kind) == Errorf(<<"invalid config entry kind: ">> \o kind)

\* C8: for every raw mapping an apply request carries, decodeConfigEntry
\* fails with the missing-kind error exactly when neither "Kind" nor "kind"
\* is a key, with the invalid-kind-type error exactly when the selected
\* value ("Kind" if present, else "kind") is not a string, and with the
\* unknown-kind error exactly when the selected string is no registered
\* kind; in these cases the request is answered with that error and nothing
\* is sent; a mapping with only "Kind" = k or only "kind" = k of a
\* registered kind k yields an entry of kind k.
C8_Discriminator ==
    \A r \in Reqs : (IsApply(r) /\ req[r].Body.decodable) =>
        LET raw == req[r].Body.raw
            dec == decodeConfigEntry(raw)
            missing == ~HasDiscriminator(raw)
            notString == HasDiscriminator(raw) /\ Discriminator(raw).type # "string"
            unknown == /\ HasDiscriminator(raw)
                       /\ Discriminator(raw).type = "string"
                       /\ Discriminator(raw).str \notin RegisteredKinds
        IN  /\ dec.err = MissingKindError <=> missing
            /\ dec.err = InvalidKindTypeError <=> notString
            /\ unknown => dec.err = UnknownKindError(Discriminator(raw).str)
            /\ (\E k \in Strings : dec.err = UnknownKindError(k)) => unknown
            /\ (missing \/ notString \/ unknown) =>
                  /\ dec.entry = NilEntry
                  /\ calls[r] = <<>>
                  /\ ret[r].err = BadRequestError(<<"Request decoding failed: ">> \o dec.err.msg)
            /\ (\E key \in {"Kind", "kind"} :
                   /\ DOMAIN raw = {key}
                   /\ raw[key].type = "string"
                   /\ raw[key].str \in RegisteredKinds) =>
                  /\ Len(calls[r]) = 1
                  /\ calls[r][1].args.Entry = Entry(Discriminator(raw).str, <<>>)

C8_Witness ==
    \E r \in Reqs :
        /\ IsApply(r) /\ req[r].Body.decodable
        /\ DOMAIN req[r].Body.raw = {"Kind", "kind"}
        /\ req[r].Body.raw["Kind"] = NumberValue
        /\ req[r].Body.raw["kind"] = StringValue(<<"a">>)
        /\ ret[r].err = BadRequestError(<<"Request decoding failed: ">>
                                           \o InvalidKindTypeError.msg)

(***************************************************************************)
(* C9                                                                      *)
(***************************************************************************)
\* the request is one that is meant to reach the backend
WellFormed(rq) ==
    \/ rq.handler = "Config" /\ rq.Method = "GET" /\ Suffix(rq) # <<>> /\ ~rq.badQuery
    \/ rq.handler = "Config" /\ rq.Method = "DELETE" /\ HasSlash(Suffix(rq))
          /\ KindOf(Suffix(rq)) \in RegisteredKinds
    \/ rq.handler = "ConfigApply" /\ Decodes(rq.Body)

\* the envelope of call c holds the kind, name, entry, datacenter and token
\* of request rq
OwnEnvelope(c, rq) ==
    CASE c.verb = "ConfigEntry.List" ->
            /\ c.args.Datacenter = rq.dc /\ c.args.QueryOptions.Token = rq.token
            /\ c.args.Kind = Suffix(rq) /\ c.args.Name = <<>>
      [] c.verb = "ConfigEntry.Get" ->
            /\ c.args.Datacenter = rq.dc /\ c.args.QueryOptions.Token = rq.token
            /\ SplitsInto(Suffix(rq), c.args.Kind, c.args.Name)
      [] c.verb = "ConfigEntry.Delete" ->
            /\ c.args.Datacenter = rq.dc /\ c.args.Token = rq.token
            /\ \E kind, name \in Suffixes :
                  SplitsInto(Suffix(rq), kind, name) /\ c.args.Entry = Entry(kind, name)
      [] c.verb = "ConfigEntry.Apply" ->
            /\ c.args.Datacenter = rq.dc /\ c.args.Token = rq.token
            /\ c.args.Entry = DecodedEntry(rq.Body)
      [] OTHER -> FALSE

\* C9: in every interleaving of concurrently handled requests, every
\* well-formed request that is being handled has exactly one backend call
\* of its own, no request has more than one, and the envelope of a
\* request's call holds that request's kind, name, entry, datacenter and
\* token.
C9_Isolation ==
    \A r \in Reqs :
        /\ Len(calls[r]) <= 1
        /\ (Started(r) /\ WellFormed(req[r])) => Len(calls[r]) = 1
        /\ calls[r] # <<>> => (Started(r) /\ OwnEnvelope(calls[r][1], req[r]))

C9_Witness ==
    \E r1, r2 \in Reqs :
        /\ r1 # r2
        /\ pc[r1] = "rpc" /\ pc[r2] = "rpc"
        /\ calls[r1][1].verb = "ConfigEntry.Apply"
        /\ calls[r2][1].verb = "ConfigEntry.Apply"
        /\ calls[r1][1].args.Entry = calls[r2][1].args.Entry
        /\ calls[r1][1].args.Datacenter = "dc1"
        /\ calls[r2][1].args.Datacenter = "dc2"

(***************************************************************************)
(* C10                                                                     *)
(***************************************************************************)
\* C10 as stated: the envelope sent with ConfigEntry.Apply has Op = upsert
\* and the envelope sent with ConfigEntry.Delete has Op = delete.
C10_OpSetOnEveryEnvelope ==
    \A r \in Reqs : calls[r] # <<>> =>
        /\ calls[r][1].verb = "ConfigEntry.Apply" => calls[r][1].args.Op = ConfigEntryUpsert
        /\ calls[r][1].verb = "ConfigEntry.Delete" => calls[r][1].args.Op = ConfigEntryDelete

\* C10, amended: the envelope sent with ConfigEntry.Apply has Op = upsert;
\* the envelope sent with ConfigEntry.Delete has Op unset (the empty
\* string), the verb alone naming the deletion.
C10_OpOfEnvelope ==
    \A r \in Reqs : calls[r] # <<>> =>
        /\ calls[r][1].verb = "ConfigEntry.Apply" => calls[r][1].args.Op = ConfigEntryUpsert
        /\ calls[r][1].verb = "ConfigEntry.Delete" => calls[r][1].args.Op = ""

C10_Witness ==
    \E r \in Reqs :
        /\ pc[r] = "done" /\ calls[r] # <<>>
        /\ calls[r][1].verb = "ConfigEntry.Delete"
        /\ calls[r][1].args.Op = ""
        /\ ret[r] = [result |-> EmptyStruct, err |-> NoError]
=============================================================================
